---- MODULE Spec2Model ----
(***************************************************************************)
(* A model of xeplint's message subsystem (src/xeplint/messages.py):       *)
(* Location ordering and rendering, MessageHandler.record, MessageStore    *)
(* and MessageContext.  Python objects live in a heap indexed by identity; *)
(* a MessageRecord's identity is its index in `heap`, so that the record   *)
(* returned by record() and the record held by a sink are one object.      *)
(* Beside them: MessageTypeRegistry, and the loop of                       *)
(* XeplintContext.find_schemas (src/xeplint/context.py) with the print at  *)
(* the end of process_file (src/xeplint/core.py).                          *)
(***************************************************************************)
EXTENDS Integers, Sequences, FiniteSets

\* ------------------------------------------------------------- bounds
MaxMsgs == 2        \* messages built by record() calls, under Spec
MaxPrinted == 3     \* messages built by record() calls, under SpecRender
MaxCtx == 1         \* MessageContext objects created
MaxTypeId == 3      \* the ids register() is called with: 1..MaxTypeId

\* ------------------------------------------------------------- values
\* Python's None, for a Location field that is absent.
None == -1
\* The empty string "" as a file name.  File names are modelled by their
\* rank in lexicographic order: 0 is "", 1, 2, ... are non-empty names.
EmptyStr == 0

NoExc == "NoExc"

\* Location(filename, line=None, col=None)
Location(filename, line, col) == [filename |-> filename, line |-> line, col |-> col]

NoLoc == Location(None, None, None)

\* Python truthiness of a file name: None and "" are falsy.
Truthy(filename) == filename # None /\ filename # EmptyStr

\* `x or d` for a file name (falsy: None, "") or a number (falsy: None, 0).
OrDefault(x, d) == IF x = None \/ x = 0 THEN d ELSE x

\* ------------------------------------------------------------- Location
\* A key of the location's fields as they are, None not replaced.
SortKeyNoDefault(loc) == <<loc.filename, loc.line, loc.col>>

\* The tuple Location.__lt__ compares.
SortKey(loc) ==
    <<OrDefault(loc.filename, EmptyStr), OrDefault(loc.line, 0), OrDefault(loc.col, 0)>>

\* Python's tuple comparison: lexicographic.
TupleLt(a, b) ==
    \/ a[1] < b[1]
    \/ a[1] = b[1] /\ a[2] < b[2]
    \/ a[1] = b[1] /\ a[2] = b[2] /\ a[3] < b[3]

LocLt(a, b) == TupleLt(SortKey(a), SortKey(b))

\* Location.__str__: ":".join([filename, str(line or 0), str(col or 0)]).
\* str.join raises TypeError on a None item.
LocationStrRaises(loc) == loc.filename = None

LocationStr(loc) ==
    <<loc.filename, OrDefault(loc.line, 0), OrDefault(loc.col, 0)>>

\* Message.__str__: "{}:{}: {}".format(location, type, text)
MessageStr(msg) == [location |-> LocationStr(msg.location), message |-> msg.message]

\* ------------------------------------------------------------- state
VARIABLES
    defaultFilename,  \* MessageStore._default_filename
    heap,             \* MessageRecord objects: [main, related], by identity
    origin,           \* per record: the sink record() was called on, the Location passed
    store,            \* MessageStore._records: record identities
    storeLog,         \* record identities in the order the store received them
    ctxs,             \* MessageContext objects, by identity: the fields __init__
                      \* sets (records, receiver, clear_on_pass, has_errors), and
                      \* beside them the line_offset keyword it was given, the
                      \* sink it was made by (parent), where its scope stands
                      \* (phase: new, open, closed), the records made through it
                      \* in the current scope (scoped) and how many of those a
                      \* clear() came after (cleared)
    nmsg,             \* messages built so far (the next message's text)
    out,              \* the lines the last MessageStore.print wrote
    last,             \* the last call: its arguments and its outcome
    name_registry,    \* MessageTypeRegistry._name_registry: name -> MessageType
    id_registry,      \* MessageTypeRegistry._id_registry: id_ -> MessageType
    registered,       \* the MessageTypes register() has returned
    schemas           \* XeplintContext.schemas: the target namespaces held

registryVars == <<name_registry, id_registry, registered>>

vars == <<defaultFilename, heap, origin, store, storeLog, ctxs, nmsg, out, last,
          name_registry, id_registry, registered, schemas>>

Range(s) == {s[i] : i \in DOMAIN s}

\* First position of x in s (0 when absent).
RECURSIVE PosFrom(_, _, _)
PosFrom(s, x, i) ==
    IF i > Len(s) THEN 0
    ELSE IF s[i] = x THEN i
    ELSE PosFrom(s, x, i + 1)

Pos(s, x) == PosFrom(s, x, 1)

Count(s, x) == Cardinality({i \in DOMAIN s : s[i] = x})

\* The attributes instances carry (set in __init__); the classes define no
\* property named default_filename.
StoreAttrs == {"_records", "_default_filename"}
ContextAttrs == {"_records", "_receiver", "_clear_on_pass", "_has_errors"}

Store == 0
IsStore(sink) == sink = Store

\* (sinks on which default_filename could be read)
HasAttrAny(sink, name) == TRUE
HasAttr(sink, name) == IF IsStore(sink) THEN name \in StoreAttrs ELSE name \in ContextAttrs

Call(op, sink, arg, loc, att, exc, ret) ==
    [op |-> op, sink |-> sink, arg |-> arg, loc |-> loc, att |-> att,
     exc |-> exc, ret |-> ret]

Init ==
    /\ defaultFilename \in {None, 1}
    /\ heap = <<>>
    /\ origin = <<>>
    /\ store = <<>>
    /\ storeLog = <<>>
    /\ ctxs = <<>>
    /\ nmsg = 0
    /\ out = <<>>
    /\ last = Call("init", Store, NoExc, NoLoc, 0, NoExc, 0)
    /\ name_registry = <<>>
    /\ id_registry = <<>>
    /\ registered = {}
    /\ schemas = {}

\* ------------------------------------------------------------- MessageHandler
\* MessageHandler._prep_message: fill in the sink's default file name.
PrepMessage(sink, msg) ==
    IF ~Truthy(msg.location.filename)
    THEN IF HasAttr(sink, "default_filename")
         THEN [exc |-> NoExc,
               msg |-> [msg EXCEPT !.location.filename = defaultFilename]]
         ELSE [exc |-> "AttributeError", msg |-> msg]
    ELSE [exc |-> NoExc, msg |-> msg]

\* MessageStore._handle_record: append to the store's list.
StoreHandleRecord(st, cx, id) == [store |-> Append(st, id), ctxs |-> cx]

\* A context that hands each record to its receiver at once.
ContextHandleRecordUnbuffered(st, cx, c, id) == [store |-> Append(st, id), ctxs |-> cx]

\* A context that appends each record to its own list.
ContextHandleRecordBuffered(st, cx, c, id) ==
    [store |-> st, ctxs |-> [cx EXCEPT ![c].records = Append(@, id)]]

\* MessageContext defines no _handle_record: it inherits MessageHandler's,
\* whose body is `pass`.
ContextHandleRecord(st, cx, c, id) == [store |-> st, ctxs |-> cx]

HandleRecord(st, cx, sink, id) ==
    IF IsStore(sink) THEN StoreHandleRecord(st, cx, id)
    ELSE ContextHandleRecord(st, cx, sink, id)

\* MessageHandler._add_records on the store: one _handle_record per record.
RECURSIVE StoreAddRecords(_, _, _)
StoreAddRecords(st, cx, recs) ==
    IF recs = <<>> THEN [store |-> st, ctxs |-> cx]
    ELSE LET r == StoreHandleRecord(st, cx, Head(recs))
         IN StoreAddRecords(r.store, r.ctxs, Tail(recs))

\* What the store received in a step, appended to the log.
Logged(st2) == storeLog \o SubSeq(st2, Len(store) + 1, Len(st2))

\* The record made through a context joins the list of its scope's records.
Scoped(cx, sink, id) ==
    IF IsStore(sink) THEN cx
    ELSE [cx EXCEPT ![sink].scoped = Append(@, id)]

\* MessageHandler.record(_type, _location, _message, attach_to=att)
Record(sink, loc, att) ==
    /\ IsStore(sink) \/ (sink \in DOMAIN ctxs /\ ctxs[sink].phase = "open")
    /\ att \in {0} \cup DOMAIN heap
    /\ LET prep == PrepMessage(sink, [location |-> loc, message |-> nmsg + 1])
           id == Len(heap) + 1
       IN IF prep.exc # NoExc
          THEN /\ last' = Call("record", sink, NoExc, loc, att, prep.exc, 0)
               /\ UNCHANGED <<registryVars, schemas, defaultFilename, heap, origin, store, storeLog, ctxs, nmsg, out>>
          ELSE /\ nmsg' = nmsg + 1
               /\ IF att # 0
                  THEN /\ heap' = [heap EXCEPT ![att].related = Append(@, prep.msg)]
                       /\ last' = Call("record", sink, NoExc, loc, att, NoExc, 0)
                       /\ UNCHANGED <<origin, store, storeLog, ctxs>>
                  ELSE LET r == HandleRecord(store, ctxs, sink, id)
                       IN /\ heap' = Append(heap, [main |-> prep.msg, related |-> <<>>])
                          /\ origin' = Append(origin, [sink |-> sink, loc |-> loc])
                          /\ store' = r.store
                          /\ storeLog' = Logged(r.store)
                          /\ ctxs' = Scoped(r.ctxs, sink, id)
                          /\ last' = Call("record", sink, NoExc, loc, att, NoExc, id)
               /\ UNCHANGED <<registryVars, schemas, defaultFilename, out>>

\* ------------------------------------------------------------- MessageStore
\* MessageStore.context(**kwargs) -> MessageContext(self._add_records, **kwargs).
\* __init__ accepts line_offset and clear_on_pass only, and keeps
\* clear_on_pass; any other keyword is a TypeError.
NewContext(line_offset, clear_on_pass, override_filename) ==
    IF override_filename
    THEN /\ last' = Call("context", Store, NoExc, NoLoc, 0, "TypeError", 0)
         /\ UNCHANGED <<registryVars, schemas, defaultFilename, heap, origin, store, storeLog, ctxs, nmsg, out>>
    ELSE /\ Len(ctxs) < MaxCtx
         /\ ctxs' = Append(ctxs, [records |-> <<>>,
                                  receiver |-> Store,
                                  clear_on_pass |-> clear_on_pass,
                                  has_errors |-> FALSE,
                                  line_offset |-> line_offset,
                                  parent |-> Store,
                                  phase |-> "new",
                                  scoped |-> <<>>,
                                  cleared |-> 0])
         /\ last' = Call("context", Store, NoExc, NoLoc, 0, NoExc, Len(ctxs) + 1)
         /\ UNCHANGED <<registryVars, schemas, defaultFilename, heap, origin, store, storeLog, nmsg, out>>

\* Stable insertion of x into the sorted list s: before the first element
\* that x is less than.
RECURSIVE InsertSorted(_, _, _)
InsertSorted(s, x, hp) ==
    IF s = <<>> THEN <<x>>
    ELSE IF LocLt(hp[x].main.location, hp[Head(s)].main.location)
         THEN <<x>> \o s
         ELSE <<Head(s)>> \o InsertSorted(Tail(s), x, hp)

\* list.sort(key=lambda x: x.main.location): a stable sort by Location.__lt__.
RECURSIVE SortFrom(_, _, _)
SortFrom(done, rest, hp) ==
    IF rest = <<>> THEN done
    ELSE SortFrom(InsertSorted(done, Head(rest), hp), Tail(rest), hp)

\* (a sort that puts a record before those it compares equal to)
RECURSIVE InsertBeforeTies(_, _, _)
InsertBeforeTies(s, x, hp) ==
    IF s = <<>> THEN <<x>>
    ELSE IF ~LocLt(hp[Head(s)].main.location, hp[x].main.location)
         THEN <<x>> \o s
         ELSE <<Head(s)>> \o InsertBeforeTies(Tail(s), x, hp)

RECURSIVE SortFromUnstable(_, _, _)
SortFromUnstable(done, rest, hp) ==
    IF rest = <<>> THEN done
    ELSE SortFromUnstable(InsertBeforeTies(done, Head(rest), hp), Tail(rest), hp)

SortRecordsUnstable(st, hp) == SortFromUnstable(<<>>, st, hp)

SortRecords(st, hp) == SortFrom(<<>>, st, hp)

\* The messages print() writes for a list of records, in order.
RECURSIVE Messages(_, _)
Messages(st, hp) ==
    IF st = <<>> THEN <<>>
    ELSE <<hp[Head(st)].main>> \o hp[Head(st)].related \o Messages(Tail(st), hp)

\* Stable insertion of a message into a list sorted by location.
RECURSIVE InsertMessage(_, _)
InsertMessage(s, m) ==
    IF s = <<>> THEN <<m>>
    ELSE IF LocLt(m.location, Head(s).location)
         THEN <<m>> \o s
         ELSE <<Head(s)>> \o InsertMessage(Tail(s), m)

RECURSIVE SortMessages(_, _)
SortMessages(done, rest) ==
    IF rest = <<>> THEN done
    ELSE SortMessages(InsertMessage(done, Head(rest)), Tail(rest))

\* A print that sorts every message, main or related, by its own location.
MessagesFlatSorted(st, hp) == SortMessages(<<>>, Messages(st, hp))

\* The loop of MessageStore.print over the sorted records.
PrintedMessages(st, hp) == Messages(st, hp)

\* The lines written before the first message whose rendering raises.
RECURSIVE Lines(_)
Lines(msgs) ==
    IF msgs = <<>> \/ LocationStrRaises(Head(msgs).location) THEN <<>>
    ELSE <<MessageStr(Head(msgs))>> \o Lines(Tail(msgs))

\* MessageStore.print
StorePrint ==
    LET sorted == SortRecords(store, heap)
        msgs == PrintedMessages(sorted, heap)
        raises == \E i \in DOMAIN msgs : LocationStrRaises(msgs[i].location)
    IN /\ store' = sorted
       /\ out' = Lines(msgs)
       /\ last' = Call("print", Store, NoExc, NoLoc, 0,
                       IF raises THEN "TypeError" ELSE NoExc, 0)
       /\ UNCHANGED <<registryVars, schemas, defaultFilename, heap, origin, storeLog, ctxs, nmsg>>

\* ------------------------------------------------------------- MessageContext
\* MessageContext.__enter__
Enter(c) ==
    /\ c \in DOMAIN ctxs
    /\ ctxs[c].phase # "open"
    /\ ctxs' = [ctxs EXCEPT ![c].phase = "open", ![c].scoped = <<>>, ![c].cleared = 0]
    /\ last' = Call("enter", c, NoExc, NoLoc, 0, NoExc, c)
    /\ UNCHANGED <<registryVars, schemas, defaultFilename, heap, origin, store, storeLog, nmsg, out>>

\* The test at the head of __exit__: forward unless discarding on a clean exit.
Forwards(clear_on_pass, exc_type) == ~(clear_on_pass /\ exc_type = NoExc)

\* (an __exit__ that returned True once it had handed on its records)
ExitReturnsTrueAfterFlush(clear_on_pass, exc_type) ==
    IF Forwards(clear_on_pass, exc_type) THEN 1 ELSE None

\* What __exit__ returns: None from the bare `return` of the discarding
\* branch, None from running off the end after the receiver was called.
ExitReturn(clear_on_pass, exc_type) ==
    IF ~Forwards(clear_on_pass, exc_type) THEN None ELSE None

\* The with statement: the exception that ended the scope is dropped when
\* __exit__ returns a true value, and goes on propagating otherwise.
Propagating(exc_type, ret) ==
    IF exc_type # NoExc /\ (ret = None \/ ret = 0) THEN exc_type ELSE NoExc

\* MessageContext.__exit__(exc_type, ...)
Exit(c, exc_type) ==
    /\ c \in DOMAIN ctxs
    /\ ctxs[c].phase = "open"
    /\ LET r == IF Forwards(ctxs[c].clear_on_pass, exc_type)
                THEN StoreAddRecords(store, ctxs, ctxs[c].records)
                ELSE [store |-> store, ctxs |-> ctxs]
       IN /\ store' = r.store
          /\ storeLog' = Logged(r.store)
          /\ ctxs' = [r.ctxs EXCEPT ![c].phase = "closed"]
    /\ LET ret == ExitReturn(ctxs[c].clear_on_pass, exc_type)
       IN last' = Call("exit", c, exc_type, NoLoc, 0, Propagating(exc_type, ret), ret)
    /\ UNCHANGED <<registryVars, schemas, defaultFilename, heap, origin, nmsg, out>>

\* MessageContext.clear
Clear(c) ==
    /\ c \in DOMAIN ctxs
    /\ ctxs[c].phase = "open"
    /\ ctxs' = [ctxs EXCEPT ![c].records = <<>>, ![c].cleared = Len(ctxs[c].scoped)]
    /\ last' = Call("clear", c, NoExc, NoLoc, 0, NoExc, 0)
    /\ UNCHANGED <<registryVars, schemas, defaultFilename, heap, origin, store, storeLog, nmsg, out>>

\* MessageContext.child(**kwargs): names ErrorContext, which nothing defines.
Child(c, line_offset) ==
    /\ c \in DOMAIN ctxs
    /\ last' = Call("child", c, NoExc, NoLoc, 0, "NameError", 0)
    /\ UNCHANGED <<registryVars, schemas, defaultFilename, heap, origin, store, storeLog, ctxs, nmsg, out>>

\* ------------------------------------------------------------- MessageTypeRegistry
\* A dict: a function on the keys it holds.
DictHas(d, key) == key \in DOMAIN d

\* d[key] = value
DictSet(d, key, value) ==
    [k \in DOMAIN d \cup {key} |-> IF k = key THEN value ELSE d[k]]

\* MessageType(class_, id_, name), a named tuple: equal fields, equal types.
MessageType(class_, id_, name) == [class_ |-> class_, id_ |-> id_, name |-> name]

\* The two tests at the head of register: the name is looked up in the name
\* map, then the id in the id map, before anything is written.
NameInUse(names, name) == DictHas(names, name)
\* (a register that tested the name only)
IdInUseUnchecked(ids, id_) == FALSE
IdInUse(ids, id_) == DictHas(ids, id_)

\* The writes of register.
NameRegistryAfter(names, type_) == DictSet(names, type_.name, type_)
\* (a register that forgot the id map)
IdRegistryStale(ids, type_) == ids
IdRegistryAfter(ids, type_) == DictSet(ids, type_.id_, type_)

\* MessageTypeRegistry.register(class_, id_, name)
Register(class_, id_, name) ==
    /\ IF NameInUse(name_registry, name) \/ IdInUse(id_registry, id_)
       THEN /\ last' = Call("register", Store, <<class_, id_, name>>, NoLoc, 0,
                            "ValueError", None)
            /\ UNCHANGED registryVars
       ELSE LET type_ == MessageType(class_, id_, name)
            IN /\ name_registry' = NameRegistryAfter(name_registry, type_)
               /\ id_registry' = IdRegistryAfter(id_registry, type_)
               /\ registered' = registered \cup {type_}
               /\ last' = Call("register", Store, <<class_, id_, name>>, NoLoc, 0,
                               NoExc, type_)
    /\ UNCHANGED <<schemas, defaultFilename, heap, origin, store, storeLog, ctxs, nmsg, out>>

\* A key of __getitem__: a str (a name) or not (an id).
StrKey(name) == [isstr |-> TRUE, val |-> name]
IntKey(id_) == [isstr |-> FALSE, val |-> id_]

\* MessageTypeRegistry.__getitem__(key): the name map for a str key, the id
\* map otherwise; a key the map lacks is a KeyError.
Lookup(names, ids, key) ==
    LET d == IF key.isstr THEN names ELSE ids
    IN IF DictHas(d, key.val)
       THEN [exc |-> NoExc, ret |-> d[key.val]]
       ELSE [exc |-> "KeyError", ret |-> None]

GetItem(key) ==
    /\ LET r == Lookup(name_registry, id_registry, key)
       IN last' = Call("getitem", Store, key, NoLoc, 0, r.exc, r.ret)
    /\ UNCHANGED <<registryVars, schemas, defaultFilename, heap, origin, store, storeLog,
                   ctxs, nmsg, out>>

\* ------------------------------------------------------------- XeplintContext
\* The keywords MessageContext.__init__ takes after the receiver; any other
\* keyword passed through MessageStore.context(**kwargs) is a TypeError.
ContextKeywords == {"line_offset", "clear_on_pass"}
ContextInitRaises(kwargs) == ~(kwargs \subseteq ContextKeywords)

\* What lxml makes of one <code> block.
BlockKinds == {"no_text", "syntax_error", "value_error", "not_schema",
               "schema_error", "schema"}

\* self.messages.record(type, location, ...) with no attach_to.
StoreRecord(loc) ==
    LET prep == PrepMessage(Store, [location |-> loc, message |-> nmsg + 1])
        id == Len(heap) + 1
    IN [exc |-> prep.exc,
        id |-> id,
        heap |-> Append(heap, [main |-> prep.msg, related |-> <<>>]),
        origin |-> Append(origin, [sink |-> Store, loc |-> loc]),
        store |-> StoreHandleRecord(store, ctxs, id).store]

\* One turn of the loop of XeplintContext.find_schemas, on a <code> block
\* at line sourceline whose schema (when it is one) targets target_ns.  The
\* store was made from self.filename.  An exception that leaves the loop
\* leaves process_file: nothing runs after it.
FindSchemasBlock(kind, sourceline, target_ns) ==
    /\ last.op \in {"init", "find_schemas"}
    /\ last.exc = NoExc
    /\ Truthy(defaultFilename)
    /\ LET done(exc) == Call("find_schemas", Store, kind,
                             Location(defaultFilename, sourceline, None), 0, exc, 0)
           skip == /\ last' = done(NoExc)
                   /\ UNCHANGED <<heap, origin, store, storeLog, ctxs, nmsg, schemas>>
           recorded(loc) ==
               LET r == StoreRecord(loc)
               IN IF r.exc # NoExc
                  THEN /\ last' = done(r.exc)
                       /\ UNCHANGED <<heap, origin, store, storeLog, ctxs, nmsg, schemas>>
                  ELSE /\ heap' = r.heap
                       /\ origin' = r.origin
                       /\ store' = r.store
                       /\ storeLog' = Logged(r.store)
                       /\ nmsg' = nmsg + 1
                       /\ last' = done(NoExc)
                       /\ UNCHANGED <<ctxs, schemas>>
       IN CASE kind \in {"no_text", "syntax_error", "not_schema"} -> skip
            [] kind = "value_error" ->
                 recorded(Location(defaultFilename, sourceline, 0))
            [] kind = "schema_error" ->
                 IF ContextInitRaises({"line_offset", "override_filename"})
                 THEN /\ last' = done("TypeError")
                      /\ UNCHANGED <<heap, origin, store, storeLog, ctxs, nmsg, schemas>>
                 ELSE \* the scope: one log entry recorded through the
                      \* context, which is then exited normally
                      LET id == Len(heap) + 1
                          c == Len(ctxs) + 1
                          entry == Location(defaultFilename, 1, 1)
                          cx == Append(ctxs, [records |-> <<>>,
                                              receiver |-> Store,
                                              clear_on_pass |-> FALSE,
                                              has_errors |-> FALSE,
                                              line_offset |-> sourceline,
                                              parent |-> Store,
                                              phase |-> "closed",
                                              scoped |-> <<id>>,
                                              cleared |-> 0])
                          r == ContextHandleRecord(store, cx, c, id)
                          f == StoreAddRecords(r.store, r.ctxs, r.ctxs[c].records)
                      IN /\ heap' = Append(heap, [main |-> [location |-> entry,
                                                            message |-> nmsg + 1],
                                                  related |-> <<>>])
                         /\ origin' = Append(origin, [sink |-> c, loc |-> entry])
                         /\ store' = f.store
                         /\ storeLog' = Logged(f.store)
                         /\ ctxs' = f.ctxs
                         /\ nmsg' = nmsg + 1
                         /\ last' = done(NoExc)
                         /\ UNCHANGED schemas
            [] kind = "schema" ->
                 IF target_ns \in schemas
                 THEN recorded(Location(defaultFilename, sourceline, None))
                 ELSE /\ schemas' = schemas \cup {target_ns}
                      /\ last' = done(NoExc)
                      /\ UNCHANGED <<heap, origin, store, storeLog, ctxs, nmsg>>
    /\ UNCHANGED <<registryVars, defaultFilename, out>>

\* ctx.messages.print() at the end of process_file.
ProcessFilePrint ==
    /\ last.exc = NoExc
    /\ StorePrint

\* ------------------------------------------------------------- specification
Sinks == {Store} \cup (1..MaxCtx)

\* The location callers pass under Spec: a file name and a line, no column
\* (scopes never look at the location).
ScopeLocs == {Location(1, 1, None)}

\* The line_offset keywords callers pass.
Offsets == {0, 1}

\* Scopes: contexts made, entered, recorded through, cleared and exited,
\* beside records made straight on the store.
Next ==
    \/ \E sink \in Sinks, loc \in ScopeLocs :
          nmsg < MaxMsgs /\ Record(sink, loc, 0)
    \/ \E k \in Offsets, cop \in BOOLEAN, ovr \in BOOLEAN : NewContext(k, cop, ovr)
    \/ \E c \in 1..MaxCtx : Enter(c)
    \/ \E c \in 1..MaxCtx, exc \in {NoExc, "Exception"} : Exit(c, exc)
    \/ \E c \in 1..MaxCtx : Clear(c)
    \/ \E c \in 1..MaxCtx, k \in Offsets : Child(c, k)

Spec == Init /\ [][Next]_vars

\* The locations callers pass under SpecRecord: file name absent (None, "")
\* or present; line and column absent or present.
RecordLocs ==
    {Location(1, 1, None), Location(1, None, 1),
     Location(None, 1, None), Location(EmptyStr, None, None)}

\* Recording on the store and on an open context, attaching included.
NextRecord ==
    \/ \E sink \in Sinks, loc \in RecordLocs, att \in 0..MaxMsgs :
          nmsg < MaxMsgs /\ Record(sink, loc, att)
    \/ \E k \in Offsets, cop \in BOOLEAN : NewContext(k, cop, FALSE)
    \/ \E c \in 1..MaxCtx : Enter(c)

SpecRecord == Init /\ [][NextRecord]_vars

\* The locations callers pass under SpecRender: two files, lines and
\* columns absent, 0 or positive.
RenderLocs ==
    {Location(1, None, None), Location(1, 0, None), Location(1, 1, None),
     Location(1, 1, 1), Location(2, None, None), Location(2, 0, 1)}

\* Recording straight into the store, and printing.
NextRender ==
    \/ \E loc \in RenderLocs, att \in 0..MaxPrinted :
          nmsg < MaxPrinted /\ Record(Store, loc, att)
    \/ StorePrint

SpecRender == Init /\ [][NextRender]_vars

\* The message levels, type ids and type names callers register.
MessageLevel == {"C", "W", "E"}
TypeIds == 1..MaxTypeId
TypeNames == {"duplicate-anchor", "example-parser", "missing-anchor"}
Keys == {StrKey(n) : n \in TypeNames} \cup {IntKey(i) : i \in TypeIds}

\* The registry: types registered, and looked up by name and by id.
NextRegistry ==
    \/ \E class_ \in MessageLevel, id_ \in TypeIds, name \in TypeNames :
          Register(class_, id_, name)
    \/ \E key \in Keys : GetItem(key)

SpecRegistry == Init /\ [][NextRegistry]_vars

\* The locations callers pass under SpecSession: a file name present with
\* the line present or absent, and the file name absent.
SessionLocs == {Location(1, 1, None), Location(1, None, None), Location(None, 1, None)}

\* A whole session: records and attachments on the store and on open
\* contexts, scopes entered, cleared and exited, and printing.
NextSession ==
    \/ \E sink \in Sinks, loc \in SessionLocs, att \in 0..MaxMsgs :
          nmsg < MaxMsgs /\ Record(sink, loc, att)
    \/ \E cop \in BOOLEAN : NewContext(0, cop, FALSE)
    \/ \E c \in 1..MaxCtx : Enter(c)
    \/ \E c \in 1..MaxCtx, exc \in {NoExc, "Exception"} : Exit(c, exc)
    \/ \E c \in 1..MaxCtx : Clear(c)
    \/ StorePrint

SpecSession == Init /\ [][NextSession]_vars

\* The lines <code> blocks stand at, and the namespaces schemas target
\* (None: no targetNamespace attribute).
SourceLines == {1, 2}
TargetNamespaces == {None, 1}

\* process_file: the code blocks of the document, then print.
NextSchemas ==
    \/ \E kind \in BlockKinds, sourceline \in SourceLines, ns \in TargetNamespaces :
          nmsg < MaxMsgs /\ FindSchemasBlock(kind, sourceline, ns)
    \/ ProcessFilePrint

SpecSchemas == Init /\ [][NextSchemas]_vars

\* ------------------------------------------------------------- claims
\* The records made through context c in its current scope that no clear()
\* came after.
Kept(c) == SubSeq(ctxs[c].scoped, ctxs[c].cleared + 1, Len(ctxs[c].scoped))

\* The last call was the exit of a context's scope.
Exited == last.op = "exit"

\* C1: after a normal exit of a context made without clear_on_pass, every
\* record made through it in the scope and not cleared is in the store's
\* list, exactly once, in recording order.
C1_ForwardedOnNormalExit ==
    (Exited /\ last.arg = NoExc /\ ~ctxs[last.sink].clear_on_pass) =>
        LET kept == Kept(last.sink)
        IN /\ \A i \in DOMAIN kept : Count(store, kept[i]) = 1
           /\ \A i, j \in DOMAIN kept :
                i < j => Pos(store, kept[i]) < Pos(store, kept[j])

\* C2: after an exit by a raised failure, whatever clear_on_pass is, every
\* record buffered through the context before the failure is in the store.
C2_ForwardedOnFailure ==
    (Exited /\ last.arg # NoExc) =>
        \A id \in Range(Kept(last.sink)) : id \in Range(store)

\* C3: the clean exit of a context made with clear_on_pass leaves the store's
\* list as it was, and none of the records made through the context in that
\* scope is in it.
C3_DiscardedOnCleanExit ==
    [][\A c \in DOMAIN ctxs :
         (/\ ctxs[c].phase = "open"
          /\ ctxs'[c].phase = "closed"
          /\ last'.arg = NoExc
          /\ ctxs[c].clear_on_pass)
         => /\ store' = store
            /\ \A id \in Range(ctxs[c].scoped) : id \notin Range(store')]_vars

C3_Witness ==
    /\ Exited
    /\ last.arg = NoExc
    /\ ctxs[last.sink].clear_on_pass
    /\ ctxs[last.sink].scoped # <<>>
    /\ store # <<>>

\* C4: a record made at local line L through a context made with
\* line_offset K has main location line L + K.
C4_OffsetAppliedAtRecord ==
    \A id \in DOMAIN heap :
        (~IsStore(origin[id].sink) /\ origin[id].loc.line # None) =>
            heap[id].main.location.line =
                origin[id].loc.line + ctxs[origin[id].sink].line_offset

\* C5: child() yields a context whose parent is the context it was called
\* on, and a record made at line L through a child, once both scopes have
\* exited, is in the store with line L + K_child + K_parent.
C5_NestedOffsetsStack ==
    /\ last.op = "child" =>
         /\ last.exc = NoExc
         /\ last.ret \in DOMAIN ctxs
         /\ ctxs[last.ret].parent = last.sink
    /\ \A id \in DOMAIN heap :
         LET c == origin[id].sink
         IN (/\ ~IsStore(c)
             /\ ~IsStore(ctxs[c].parent)
             /\ ctxs[c].phase = "closed"
             /\ ctxs[ctxs[c].parent].phase = "closed"
             /\ origin[id].loc.line # None)
            => /\ id \in Range(store)
               /\ heap[id].main.location.line =
                    origin[id].loc.line + ctxs[c].line_offset
                        + ctxs[ctxs[c].parent].line_offset

\* The message the last record() call stored: the new record's main message,
\* or with attach_to the target's newest related message.
LastMessage ==
    IF last.att = 0 THEN heap[last.ret].main
    ELSE heap[last.att].related[Len(heap[last.att].related)]

\* C6: record() with a Location whose file name is absent stores a message
\* whose file name is the default file name given to the store, main or
\* attached; line and col are as given.
C6_DefaultFilenameFilled ==
    (last.op = "record" /\ ~Truthy(last.loc.filename)) =>
        /\ last.exc = NoExc
        /\ LastMessage.location = [last.loc EXCEPT !.filename = defaultFilename]

\* C7: record() never raises: it returns a new record, or with attach_to
\* appends to the target record.
C7_RecordTotal ==
    last.op = "record" =>
        /\ last.exc = NoExc
        /\ IF last.att = 0
           THEN last.ret \in DOMAIN heap
           ELSE /\ heap[last.att].related # <<>>
                /\ LastMessage.message = nmsg

\* The key of the order C8 names: file name or "", line or 0, col or 0.
ClaimKey(id) ==
    LET loc == heap[id].main.location
    IN <<IF loc.filename = None THEN EmptyStr ELSE loc.filename,
         IF loc.line = None THEN 0 ELSE loc.line,
         IF loc.col = None THEN 0 ELSE loc.col>>

ClaimLess(a, b) ==
    LET x == ClaimKey(a)
        y == ClaimKey(b)
    IN \/ x[1] < y[1]
       \/ x[1] = y[1] /\ x[2] < y[2]
       \/ x[1] = y[1] /\ x[2] = y[2] /\ x[3] < y[3]

\* Where the line of the message with this text stands in the output (0: nowhere).
RECURSIVE LinePosFrom(_, _)
LinePosFrom(text, i) ==
    IF i > Len(out) THEN 0
    ELSE IF out[i].message = text THEN i
    ELSE LinePosFrom(text, i + 1)

LinePos(text) == LinePosFrom(text, 1)

MainPos(id) == LinePos(heap[id].main.message)

\* C8: print writes every record's main line; of two records the one whose
\* main location is smaller is written first, and of two whose main
\* locations compare equal the one the store received first.
C8_PrintOrder ==
    last.op = "print" =>
        /\ \A a \in Range(store) : MainPos(a) > 0
        /\ \A a, b \in Range(store) :
             (\/ ClaimLess(a, b)
              \/ /\ a # b
                 /\ ClaimKey(a) = ClaimKey(b)
                 /\ Pos(storeLog, a) < Pos(storeLog, b))
             => MainPos(a) < MainPos(b)

C8_Witness ==
    /\ last.op = "print"
    /\ \E a, b \in Range(store) :
         ClaimLess(a, b) /\ Pos(storeLog, b) < Pos(storeLog, a)
    /\ \E a, b \in Range(store) :
         /\ ClaimKey(a) = ClaimKey(b)
         /\ heap[a].main.location # heap[b].main.location

\* C9: in print's output the related messages of a record stand directly
\* after its main message, in the order they were attached, whatever their
\* own locations.
C9_RelatedFollowMain ==
    last.op = "print" =>
        \A a \in Range(store) :
            /\ MainPos(a) > 0
            /\ \A k \in DOMAIN heap[a].related :
                 /\ MainPos(a) + k <= Len(out)
                 /\ out[MainPos(a) + k].message = heap[a].related[k].message

C9_Witness ==
    /\ last.op = "print"
    /\ \E a, b \in Range(store) : \E k \in DOMAIN heap[a].related :
         /\ ClaimLess(b, a)
         /\ LocLt(heap[a].related[k].location, heap[b].main.location)
         /\ MainPos(b) < MainPos(a)
         /\ LinePos(heap[a].related[k].message) = MainPos(a) + k

\* C10: a record() call with attach_to returns None and appends one message
\* to the target's related list; the records, the store's list and every
\* context's buffer stay as they were.
C10_AttachAppendsOnly ==
    [][(last'.op = "record" /\ last'.att # 0) =>
         /\ last'.exc = NoExc
         /\ last'.ret = 0
         /\ Len(heap') = Len(heap)
         /\ Len(heap'[last'.att].related) = Len(heap[last'.att].related) + 1
         /\ SubSeq(heap'[last'.att].related, 1, Len(heap[last'.att].related))
              = heap[last'.att].related
         /\ store' = store
         /\ \A c \in DOMAIN ctxs : ctxs'[c].records = ctxs[c].records]_vars

\* Every type the registry holds or has handed out.
KnownTypes == registered \cup Range(name_registry) \cup Range(id_registry)

NoSharedKeys ==
    \A t \in KnownTypes, u \in KnownTypes :
        (t.name = u.name \/ t.id_ = u.id_) => t = u

\* C11: a register call whose name or whose id is already in use raises
\* ValueError and leaves the name map and the id map as they were; and after
\* every register call no two types of the registry share a name or an id.
C11_RegisterRejectsDuplicates ==
    [][last'.op = "register" =>
         /\ (DictHas(name_registry, last'.arg[3]) \/ DictHas(id_registry, last'.arg[2]))
               => /\ last'.exc = "ValueError"
                  /\ name_registry' = name_registry
                  /\ id_registry' = id_registry
         /\ NoSharedKeys']_vars

\* A register call refused for its id alone, on a registry of two types.
C11_Witness ==
    /\ last.op = "register"
    /\ last.exc = "ValueError"
    /\ DictHas(id_registry, last.arg[2])
    /\ ~DictHas(name_registry, last.arg[3])
    /\ Cardinality(registered) = 2

\* C12: the name map and the id map hold exactly the types register has
\* returned; each of them is what a lookup of its name and a lookup of its
\* id return; a name or an id never registered is a KeyError.
C12_MapsAgree ==
    /\ Range(name_registry) = registered
    /\ Range(id_registry) = registered
    /\ \A t \in registered :
          /\ Lookup(name_registry, id_registry, StrKey(t.name)) = [exc |-> NoExc, ret |-> t]
          /\ Lookup(name_registry, id_registry, IntKey(t.id_)) = [exc |-> NoExc, ret |-> t]
    /\ \A n \in TypeNames :
          (\A t \in registered : t.name # n)
             => Lookup(name_registry, id_registry, StrKey(n)).exc = "KeyError"
    /\ \A i \in TypeIds :
          (\A t \in registered : t.id_ # i)
             => Lookup(name_registry, id_registry, IntKey(i)).exc = "KeyError"
    /\ last.op = "getitem" =>
          IF \E t \in registered : last.arg \in {StrKey(t.name), IntKey(t.id_)}
          THEN last.exc = NoExc /\ last.ret \in registered
          ELSE last.exc = "KeyError"

\* A lookup by id that found its type, with another id still unregistered.
C12_Witness ==
    /\ last.op = "getitem"
    /\ ~last.arg.isstr
    /\ last.exc = NoExc
    /\ last.ret.id_ = last.arg.val
    /\ \E i \in TypeIds : ~DictHas(id_registry, i)

\* The rendering C13 names: an absent file name as "", an absent line or
\* col as 0.
ClaimLocationStr(loc) ==
    <<IF loc.filename = None THEN EmptyStr ELSE loc.filename,
      IF loc.line = None THEN 0 ELSE loc.line,
      IF loc.col = None THEN 0 ELSE loc.col>>

\* C13: print does not raise, and writes one line for every main and
\* related message of the store, each location rendered with "" for an
\* absent file name and 0 for an absent line or col.
C13_PrintTotal ==
    last.op = "print" =>
        LET msgs == Messages(store, heap)
        IN /\ last.exc = NoExc
           /\ Len(out) = Len(msgs)
           /\ \A i \in DOMAIN msgs :
                out[i].location = ClaimLocationStr(msgs[i].location)

\* A print of a main and a related message, line and col absent in one.
C13_Witness ==
    /\ last.op = "print"
    /\ Len(out) = 2
    /\ \E a \in Range(store) :
         /\ heap[a].related # <<>>
         /\ heap[a].related[1].location.line = None
         /\ heap[a].related[1].location.col = None

\* C14: a <code> block whose schema fails to compile raises nothing out of
\* find_schemas, and its log entry is a record of the store, made through a
\* context opened with the block's line as line_offset.
C14_SchemaDefectRecorded ==
    (last.op = "find_schemas" /\ last.arg = "schema_error") =>
        /\ last.exc = NoExc
        /\ \E id \in Range(store) :
             /\ ~IsStore(origin[id].sink)
             /\ ctxs[origin[id].sink].line_offset = last.loc.line

\* C15: no record is in the store's list more than once, and none was
\* handed to the store more than once, whatever was recorded, attached,
\* entered, exited (again, or by a failure), cleared and printed.
C15_NoRecordTwice ==
    \A id \in DOMAIN heap :
        /\ Count(store, id) <= 1
        /\ Count(storeLog, id) <= 1

\* The second scope of one context ends by a failure, after a record was
\* made in its first scope, with the store holding a printed record.
C15_Witness ==
    /\ last.op = "exit"
    /\ last.arg # NoExc
    /\ \E id \in DOMAIN heap :
         /\ origin[id].sink = last.sink
         /\ id \notin Range(ctxs[last.sink].scoped)
    /\ store # <<>>
    /\ out # <<>>

\* C16: a record() call made through a context whose scope is open leaves
\* the store's list as it was and appends the new record to the context's
\* own list.
C16_BufferedWhileOpen ==
    [][(/\ last'.op = "record"
        /\ ~IsStore(last'.sink)
        /\ last'.exc = NoExc
        /\ last'.att = 0)
         => /\ store' = store
            /\ ctxs'[last'.sink].records
                  = Append(ctxs[last'.sink].records, last'.ret)]_vars

\* The records whose sink has handed them to the store: made on the store,
\* or made (and not cleared) in the last scope of a context without
\* clear_on_pass, that scope now closed.
Flushed ==
    {id \in DOMAIN heap :
        LET c == origin[id].sink
        IN \/ IsStore(c)
           \/ /\ ~ctxs[c].clear_on_pass
              /\ ctxs[c].phase = "closed"
              /\ id \in Range(Kept(c))}

\* C17: a message attached to a record that record() returned and whose
\* sink has handed it to the store is on that record, and print writes the
\* record's main line with its attached messages right after it, in order.
C17_AttachedPrintedAfterMain ==
    /\ (last.op = "record" /\ last.att # 0 /\ Truthy(last.loc.filename)) =>
          /\ last.exc = NoExc
          /\ LastMessage.message = nmsg
    /\ last.op = "print" =>
          \A id \in Flushed :
              heap[id].related # <<>> =>
                  /\ MainPos(id) > 0
                  /\ \A k \in DOMAIN heap[id].related :
                       /\ MainPos(id) + k <= Len(out)
                       /\ out[MainPos(id) + k].message = heap[id].related[k].message

\* The records of a context's scope that a clear() came after.
Cleared(c) == SubSeq(ctxs[c].scoped, 1, ctxs[c].cleared)

\* C18: clear() leaves the scope open; at an exit that forwards, after a
\* clear() that discarded something, no record made before the clear() is
\* in the store and every record made after it is.
C18_ClearDiscardsEarlierOnly ==
    /\ last.op = "clear" => ctxs[last.sink].phase = "open"
    /\ (/\ Exited
        /\ Forwards(ctxs[last.sink].clear_on_pass, last.arg)
        /\ ctxs[last.sink].cleared > 0)
         => /\ \A id \in Range(Cleared(last.sink)) : id \notin Range(store)
            /\ \A id \in Range(Kept(last.sink)) : id \in Range(store)

\* C19: after an exit by a failure, whatever clear_on_pass is, the failure
\* is still propagating (__exit__ returned nothing true), the scope is
\* closed and the context's list has been handed to the store.
C19_ExitPropagatesFailure ==
    (Exited /\ last.arg # NoExc) =>
        /\ last.exc = last.arg
        /\ last.ret = None
        /\ ctxs[last.sink].phase = "closed"
        /\ \A id \in Range(ctxs[last.sink].records) : id \in Range(store)

\* A failure ends the scope of a clear_on_pass context that was recorded
\* through.
C19_Witness ==
    /\ Exited
    /\ last.arg = "Exception"
    /\ ctxs[last.sink].clear_on_pass
    /\ ctxs[last.sink].scoped # <<>>

\* C20: no step takes a record out of the store's list; a print leaves in
\* it exactly the records it held, as many times each; and a print that
\* follows a print writes the same lines.
C20_StoreOnlyGrows ==
    [][/\ \A id \in DOMAIN heap : Count(store', id) >= Count(store, id)
       /\ last'.op = "print" =>
             /\ Len(store') = Len(store)
             /\ \A id \in DOMAIN heap : Count(store', id) = Count(store, id)
       /\ (last.op = "print" /\ last'.op = "print") => out' = out]_vars

\* A print that reordered the store's list, after a context's scope ended.
C20_Witness ==
    /\ last.op = "print"
    /\ Len(store) >= 2
    /\ store # storeLog
    /\ \E c \in DOMAIN ctxs : ctxs[c].phase = "closed"
====
